---- MODULE Spec2Model ----
(***************************************************************************)
(* Model of the sigmatic client-side hybrid encryption subsystem           *)
(* (src/src/services/payloadEncryption.ts) and of its caller               *)
(* (src/src/services/houseListingService.ts).                              *)
(*                                                                         *)
(* Strings are sequences of UTF-16 code units, buffers are sequences of    *)
(* bytes (0..255).  An optional value is a sequence of length 0            *)
(* (undefined) or 1.                                                       *)
(***************************************************************************)
EXTENDS Integers, Sequences, FiniteSets, TLC

\* ------------------------------------------------------------------ bounds
\* Number of distinct values crypto.randomBytes(16) can return in the model.
NumCounters == 2
\* The clock advances in ticks of one second, 0..MaxTick.
MaxTick == 1
\* Number of getListingDetails calls that may overlap.
NumCalls == 2

\* ------------------------------------------------------------ basic values
Undefined == <<>>
Some(v) == <<v>>
IsDefined(o) == Len(o) = 1
Get(o) == o[1]
Range(s) == {s[i] : i \in 1..Len(s)}

RECURSIVE Xor(_, _)
Xor(a, b) ==
    IF a = 0 THEN b
    ELSE IF b = 0 THEN a
    ELSE ((a + b) % 2) + 2 * Xor(a \div 2, b \div 2)

\* ------------------------------------------------------------- string data
\* "hs_request_timestamp"
KeyTimestamp ==
    <<104, 115, 95, 114, 101, 113, 117, 101, 115, 116,
      95, 116, 105, 109, 101, 115, 116, 97, 109, 112>>
\* "id_listing"
KeyIdListing == <<105, 100, 95, 108, 105, 115, 116, 105, 110, 103>>
\* "lang", "province", "en_US", "ON"
KeyLang == <<108, 97, 110, 103>>
KeyProvince == <<112, 114, 111, 118, 105, 110, 99, 101>>
StrEnUS == <<101, 110, 95, 85, 83>>
StrON == <<79, 78>>
\* "houseList"
KeyHouseList == <<104, 111, 117, 115, 101, 76, 105, 115, 116>>

\* A JSON value is a string, an array of strings, or an array of objects whose
\* properties are strings (a response's houseList).
JStr(s) == [t |-> "str", s |-> s, a |-> <<>>, o |-> <<>>]
JArr(a) == [t |-> "arr", s |-> <<>>, a |-> a, o |-> <<>>]
JObjs(o) == [t |-> "objs", s |-> <<>>, a |-> <<>>, o |-> o]
Field(k, v) == [k |-> k, v |-> v]

\* Buffer.from(s, "utf8") / buffer.toString("utf8") on one code unit
\* (basic multilingual plane, no surrogates).
Utf8Char(c) ==
    IF c < 128 THEN <<c>>
    ELSE IF c < 2048 THEN <<192 + (c \div 64), 128 + (c % 64)>>
    ELSE <<224 + (c \div 4096), 128 + ((c \div 64) % 64), 128 + (c % 64)>>

\* Buffer.from(s, "utf8"): the encodings of the code units, concatenated
\* (the string is split in halves to keep the evaluation shallow).
RECURSIVE Utf8(_)
Utf8(s) ==
    IF Len(s) = 0 THEN <<>>
    ELSE IF Len(s) = 1 THEN Utf8Char(s[1])
    ELSE Utf8(SubSeq(s, 1, Len(s) \div 2))
         \o Utf8(SubSeq(s, (Len(s) \div 2) + 1, Len(s)))

\* The number of bytes of the well-formed sequence that starts at b[i]
\* (1 for a byte that starts none).
Utf8SeqLen(b, i) ==
    IF b[i] < 128 THEN 1
    ELSE IF b[i] >= 194 /\ b[i] < 224 /\ Len(b) >= i + 1 /\ b[i + 1] \div 64 = 2
    THEN 2
    ELSE IF b[i] >= 224 /\ b[i] < 240 /\ Len(b) >= i + 2
            /\ b[i + 1] \div 64 = 2 /\ b[i + 2] \div 64 = 2
            /\ ((b[i] - 224) * 4096) + ((b[i + 1] - 128) * 64) >= 2048
    THEN 3
    ELSE 1

\* The code unit decoded at b[i]; a byte that starts no well-formed sequence
\* decodes to U+FFFD.
Utf8CodeUnit(b, i) ==
    IF b[i] < 128 THEN b[i]
    ELSE IF Utf8SeqLen(b, i) = 2 THEN ((b[i] - 192) * 64) + (b[i + 1] - 128)
    ELSE IF Utf8SeqLen(b, i) = 3
    THEN ((b[i] - 224) * 4096) + ((b[i + 1] - 128) * 64) + (b[i + 2] - 128)
    ELSE 65533

\* b[i] is a continuation byte of the sequence its lead byte starts (a lead
\* byte is never a continuation byte, so it always starts a sequence).
Utf8Continues(b, i) ==
    \/ i >= 2 /\ Utf8SeqLen(b, i - 1) >= 2
    \/ i >= 3 /\ Utf8SeqLen(b, i - 2) = 3

\* buffer.toString("utf8"): one code unit for every sequence, left to right.
Utf8Decode(b) ==
    LET starts == SelectSeq([i \in 1..Len(b) |-> i],
                            LAMBDA i : ~Utf8Continues(b, i))
    IN  [k \in 1..Len(starts) |-> Utf8CodeUnit(b, starts[k])]

\* A JavaScript number that holds a count of seconds is exact far beyond 32
\* bits; it is kept as hi * 10^9 + lo with 0 <= lo < 10^9.
Giga == 1000000000
Wide(hi, lo) == [hi |-> hi, lo |-> lo]
\* w + n for a small n >= 0.
WideAdd(w, n) == Wide(w.hi + ((w.lo + n) \div Giga), (w.lo + n) % Giga)
WideLess(a, b) == a.hi < b.hi \/ (a.hi = b.hi /\ a.lo < b.lo)

\* The decimal digits of a non-negative integer below 2^31.
RECURSIVE Digits(_)
Digits(n) ==
    IF n < 10 THEN <<48 + n>>
    ELSE Digits(n \div 10) \o <<48 + (n % 10)>>

\* Number.prototype.toString() of a non-negative integer: decimal digits, no
\* sign, no leading zero, no exponent (below 10^21).
NumberToString(w) ==
    IF w.hi = 0 THEN Digits(w.lo)
    ELSE Digits(w.hi) \o [i \in 1..(9 - Len(Digits(w.lo))) |-> 48] \o Digits(w.lo)

\* ------------------------------------------------------------------ errors
\* A thrown value: the error's constructor name, message and code.
JsError(name, message, code) == [name |-> name, message |-> message, code |-> code]
NoError == JsError("", "", "")
Ok(v) == [ok |-> TRUE, value |-> v, error |-> NoError]
Throw(e) == [ok |-> FALSE, value |-> <<>>, error |-> e]

ErrNoMetadata ==
    JsError("Error", "No encryption metadata available. Must encrypt a request first.", "")
ErrRsaKeyRequired ==
    JsError("Error", "RSA public key is required for counter encryption", "")
ErrPemDecode ==
    JsError("Error", "error:1E08010C:DECODER routines::unsupported", "ERR_OSSL_UNSUPPORTED")
ErrInvalidKeyLength ==
    JsError("RangeError", "Invalid key length", "ERR_CRYPTO_INVALID_KEYLEN")
ErrInvalidIv ==
    JsError("TypeError", "Invalid initialization vector", "ERR_CRYPTO_INVALID_IV")
ErrGzipHeader == JsError("Error", "incorrect header check", "Z_DATA_ERROR")
ErrGzipEof == JsError("Error", "unexpected end of file", "Z_BUF_ERROR")
ErrGzipData == JsError("Error", "incorrect data check", "Z_DATA_ERROR")
ErrJsonSyntax == JsError("SyntaxError", "Unexpected token in JSON", "")
ErrCircular == JsError("TypeError", "Converting circular structure to JSON", "")

\* -------------------------------------------------------------------- JSON
Quote(s) == <<34>> \o s \o <<34>>

RECURSIVE JoinComma(_)
JoinComma(parts) ==
    IF Len(parts) = 0 THEN <<>>
    ELSE IF Len(parts) = 1 THEN parts[1]
    ELSE parts[1] \o <<44>> \o JoinComma(Tail(parts))

\* JSON.stringify of a value, as text (the characters of the model need no
\* escaping).
RECURSIVE StringifyValue(_)
RECURSIVE StringifyFields(_)
StringifyValue(v) ==
    IF v.t = "str" THEN Quote(v.s)
    ELSE IF v.t = "arr"
    THEN <<91>> \o JoinComma([i \in 1..Len(v.a) |-> Quote(v.a[i])]) \o <<93>>
    ELSE <<91>> \o JoinComma([i \in 1..Len(v.o) |-> StringifyFields(v.o[i])]) \o <<93>>

StringifyFields(fields) ==
    <<123>>
    \o JoinComma([i \in 1..Len(fields) |->
                    Quote(fields[i].k) \o <<58>> \o StringifyValue(fields[i].v)])
    \o <<125>>

\* JSON.stringify(object): own properties in insertion order; a circular
\* structure throws a TypeError.
JsonStringify(obj) ==
    IF obj.circular THEN Throw(ErrCircular) ELSE Ok(StringifyFields(obj.fields))

HasKey(fields, k) == \E i \in 1..Len(fields) : fields[i].k = k

\* Mutant: { hs_request_timestamp: timestamp, ...requestData }, the spread
\* last: a timestamp the caller passed wins over the generated one.
MergeTimestampSpreadLast(obj, timestamp) ==
    [circular |-> obj.circular,
     fields |->
        IF HasKey(obj.fields, KeyTimestamp)
        THEN <<CHOOSE f \in Range(obj.fields) : f.k = KeyTimestamp>>
             \o SelectSeq(obj.fields, LAMBDA f : f.k # KeyTimestamp)
        ELSE <<Field(KeyTimestamp, JStr(timestamp))>> \o obj.fields]

\* The caller's object after the spread: the spread reads it and assigns
\* nothing to it.
PayloadAfterMerge(obj, timestamp) == obj

\* { ...requestData, hs_request_timestamp: timestamp }: a new object; a key
\* the spread already defined keeps its position and takes the new value.
MergeTimestamp(obj, timestamp) ==
    [circular |-> obj.circular,
     fields |->
        IF HasKey(obj.fields, KeyTimestamp)
        THEN [i \in 1..Len(obj.fields) |->
                IF obj.fields[i].k = KeyTimestamp
                THEN Field(KeyTimestamp, JStr(timestamp))
                ELSE obj.fields[i]]
        ELSE Append(obj.fields, Field(KeyTimestamp, JStr(timestamp)))]

\* ------------------------------------------------------------------ base64
B64Char(i) ==
    IF i < 26 THEN 65 + i
    ELSE IF i < 52 THEN 97 + (i - 26)
    ELSE IF i < 62 THEN 48 + (i - 52)
    ELSE IF i = 62 THEN 43 ELSE 47

\* Index of a character in the alphabet ('-' and '_' accepted as in Node),
\* -1 for any other character.
B64Index(c) ==
    IF c >= 65 /\ c <= 90 THEN c - 65
    ELSE IF c >= 97 /\ c <= 122 THEN c - 97 + 26
    ELSE IF c >= 48 /\ c <= 57 THEN c - 48 + 52
    ELSE IF c = 43 \/ c = 45 THEN 62
    ELSE IF c = 47 \/ c = 95 THEN 63
    ELSE -1

\* buffer.toString("base64")
\* Three bytes give four characters; a trailing group of one or two bytes is
\* padded with '='.
Base64Encode(b) ==
    [j \in 1..(4 * ((Len(b) + 2) \div 3)) |->
        LET base == 3 * ((j - 1) \div 4)
            k == (j - 1) % 4
            b1 == b[base + 1]
            b2 == IF base + 2 <= Len(b) THEN b[base + 2] ELSE 0
            b3 == IF base + 3 <= Len(b) THEN b[base + 3] ELSE 0
        IN  IF k = 0 THEN B64Char(b1 \div 4)
            ELSE IF k = 1 THEN B64Char(((b1 % 4) * 16) + (b2 \div 16))
            ELSE IF k = 2
            THEN IF base + 2 <= Len(b) THEN B64Char(((b2 % 16) * 4) + (b3 \div 64))
                 ELSE 61
            ELSE IF base + 3 <= Len(b) THEN B64Char(b3 % 64) ELSE 61]

\* The 6-bit values of the characters before the first '=', other
\* characters skipped.
B64Sextets(s) ==
    LET stops == {i \in 1..Len(s) : s[i] = 61}
        cut == IF stops = {} THEN Len(s)
               ELSE (CHOOSE i \in stops : \A j \in stops : i <= j) - 1
        kept == SelectSeq(SubSeq(s, 1, cut), LAMBDA c : B64Index(c) >= 0)
    IN  [i \in 1..Len(kept) |-> B64Index(kept[i])]

\* Four 6-bit values give three bytes; a trailing group of two or three gives
\* one or two bytes, a trailing single value none.
B64Bytes(x) ==
    [j \in 1..((Len(x) * 3) \div 4) |->
        LET base == 4 * ((j - 1) \div 3)
            k == (j - 1) % 3
        IN  IF k = 0 THEN (x[base + 1] * 4) + (x[base + 2] \div 16)
            ELSE IF k = 1 THEN ((x[base + 2] % 16) * 16) + (x[base + 3] \div 4)
            ELSE ((x[base + 3] % 4) * 64) + x[base + 4]]

\* Buffer.from(text, "base64"): never throws on a string.
Base64Decode(s) == B64Bytes(B64Sextets(s))

\* ------------------------------------------------------------------ crypto
\* The padding character '*' and the key width of normalizeAESKey.
PadChar == 42
KeyWidth == 16
\* crypto.randomBytes(16)
CounterWidth == 16
\* Key and IV sizes createCipheriv accepts for "aes-128-ctr".
AesKeySize == 16
AesBlockSize == 16

\* String.prototype.padEnd(n, c) with a one-character pad.
PadEnd(s, n, c) ==
    IF Len(s) >= n THEN s ELSE s \o [i \in 1..(n - Len(s)) |-> c]

\* String.prototype.slice(0, n)
SliceTo(s, n) == IF Len(s) <= n THEN s ELSE SubSeq(s, 1, n)

normalizeAESKey(keyString) ==
    Utf8(SliceTo(PadEnd(keyString, KeyWidth, PadChar), KeyWidth))

\* The values crypto.randomBytes(16) returns in the model: 16-byte buffers.
RandomBuffer(n) == [i \in 1..CounterWidth |-> ((n * 37) + (i * 11)) % 256]
RandomBytes == {RandomBuffer(n) : n \in 1..NumCounters}

\* createCipheriv / createDecipheriv("aes-128-ctr", key, iv): the error thrown
\* for a key or IV of the wrong size, if any.
CipherInitError(key, iv) ==
    IF Len(key) # AesKeySize THEN Some(ErrInvalidKeyLength)
    ELSE IF Len(iv) # AesBlockSize THEN Some(ErrInvalidIv)
    ELSE Undefined

\* AES-128 stands behind this keyed function: a byte of the keystream block
\* `block` at `offset`, for a key and an initial counter folded into `seed`.
\* Mix folds the bytes left to right, h -> (31 * h + byte) mod 65521.  Each
\* step is an affine map <<a, c>> (h -> a * h + c); the maps of the two halves
\* of the sequence are composed, which keeps the evaluation shallow.
MixModulus == 65521
\* (x * y) mod 65521 within 32-bit integers.
MulMod(x, y) ==
    ((((x * (y \div 256)) % MixModulus) * 256) + (x * (y % 256))) % MixModulus

RECURSIVE MixMap(_)
MixMap(b) ==
    IF Len(b) = 1 THEN <<31, b[1]>>
    ELSE LET l == MixMap(SubSeq(b, 1, Len(b) \div 2))
             r == MixMap(SubSeq(b, (Len(b) \div 2) + 1, Len(b)))
         IN  <<MulMod(l[1], r[1]), (MulMod(r[1], l[2]) + r[2]) % MixModulus>>

Mix(b, h) ==
    IF Len(b) = 0 THEN h
    ELSE (MulMod(MixMap(b)[1], h) + MixMap(b)[2]) % MixModulus

KeystreamByte(seed, block, offset) ==
    ((seed % 256) + ((seed \div 256) * 3) + (block * 101) + (offset * 29)) % 256

\* Counter mode: the data XORed with the keystream, block after block; the
\* same transform encrypts and decrypts and keeps the length.
KeystreamXor(seed, data) ==
    [i \in 1..Len(data) |->
        Xor(data[i],
            KeystreamByte(seed, (i - 1) \div AesBlockSize, (i - 1) % AesBlockSize))]

\* cipher.update + cipher.final of "aes-128-ctr" with a valid key and counter.
AesCtr(key, counter, data) == KeystreamXor(Mix(key \o counter, 7), data)

\* The configured public keys of the model.
PemValid == "-----BEGIN PUBLIC KEY-----MIGfMA0GCSqGSIb3DQEB...-----END PUBLIC KEY-----"
PemMissing == ""
PemMalformed == "not a PEM"

\* crypto.publicEncrypt with RSA-OAEP (SHA-1): the block only the holder of
\* the private key opens, or the decoder's error for a malformed key.
PublicEncrypt(pem, data) ==
    IF pem = PemValid
    THEN Ok([alg |-> "RSA-OAEP-SHA1", sealed |-> data])
    ELSE Throw(ErrPemDecode)

\* -------------------------------------------------------------------- gzip
GzipMagic == <<31, 139, 8>>

\* The trailer's checksum folds the bytes right to left from 0,
\* c -> (3 * c + byte + 1) mod 256.  Each step is an affine map <<a, c>>; the
\* maps of the two halves of the sequence are composed, which keeps the
\* evaluation shallow.
RECURSIVE ChecksumMap(_)
ChecksumMap(b) ==
    IF Len(b) = 1 THEN <<3, (b[1] + 1) % 256>>
    ELSE LET l == ChecksumMap(SubSeq(b, 1, Len(b) \div 2))
             r == ChecksumMap(SubSeq(b, (Len(b) \div 2) + 1, Len(b)))
         IN  <<(l[1] * r[1]) % 256, ((l[1] * r[2]) + l[2]) % 256>>

Checksum(b) == IF Len(b) = 0 THEN 0 ELSE ChecksumMap(b)[2]

\* A gzip member: header, body, checksum trailer (deflate itself is not
\* modelled: the body is stored).
Gzip(data) == GzipMagic \o data \o <<Checksum(data)>>

\* zlib.gunzip
Gunzip(b) ==
    IF Len(b) = 0 THEN Throw(ErrGzipEof)
    ELSE IF Len(b) < Len(GzipMagic) \/ SubSeq(b, 1, Len(GzipMagic)) # GzipMagic
    THEN Throw(ErrGzipHeader)
    ELSE IF Len(b) = Len(GzipMagic) THEN Throw(ErrGzipEof)
    ELSE LET body == SubSeq(b, Len(GzipMagic) + 1, Len(b) - 1)
         IN  IF b[Len(b)] # Checksum(body) THEN Throw(ErrGzipData) ELSE Ok(body)

\* ------------------------------------------------------------------- clock
\* Date.now() at tick t, in milliseconds, kept as whole seconds and the
\* milliseconds within the second.
EpochSec == Wide(1, 700000000)
DateNow(t) == [sec |-> WideAdd(EpochSec, t), ms |-> 250 * (1 + (t % 2))]

\* Mutant: Math.round in place of Math.floor.
FloorSecondsRounded(now) == IF now.ms >= 500 THEN WideAdd(now.sec, 1) ELSE now.sec

\* Math.floor(Date.now() / 1000): the division is exact enough below 2^53
\* milliseconds for the floor to be the whole seconds.
FloorSeconds(now) == now.sec

\* ------------------------------------------------- response documents
\* "X1", "X2", "oops"
IdX1 == <<88, 49>>
IdX2 == <<88, 50>>
TextOops == <<111, 111, 112, 115>>

Listing(id) == <<Field(KeyIdListing, JStr(id))>>
ListingNoId == <<Field(KeyLang, JStr(StrEnUS))>>
DocHouseList(listings) == <<Field(KeyHouseList, JObjs(listings))>>
DocNoHouseList == <<Field(KeyLang, JStr(StrEnUS))>>

\* The JSON objects a response decodes to in the model.
JsonDocs ==
    {DocNoHouseList, DocHouseList(<<>>), DocHouseList(<<Listing(IdX1)>>),
     DocHouseList(<<Listing(IdX2)>>), DocHouseList(<<Listing(IdX1), Listing(IdX2)>>),
     DocHouseList(<<ListingNoId>>)}

\* JSON.parse: the object whose text this is; any other text of the model
\* is a syntax error.
JsonParse(text) ==
    IF \E d \in JsonDocs : StringifyFields(d) = text
    THEN Ok(CHOOSE d \in JsonDocs : StringifyFields(d) = text)
    ELSE Throw(ErrJsonSyntax)

\* ------------------------------------------------------------ model inputs
\* Secrets: "", "abc", "abcdefghijklmnopqrst" (20 characters), and "e-acute"
\* (one character, two UTF-8 bytes).
SecretEmpty == <<>>
SecretShort == <<97, 98, 99>>
SecretLong == [i \in 1..20 |-> 96 + i]
SecretMultibyte == <<233>>
Secrets == {SecretEmpty, SecretShort, SecretLong, SecretMultibyte}

Object(fields) == [fields |-> fields, circular |-> FALSE]
\* {}
PayloadEmpty == Object(<<>>)
\* { lang: "en_US", province: "ON", id_listing: ids }
PayloadListing(ids) ==
    Object(<<Field(KeyLang, JStr(StrEnUS)), Field(KeyProvince, JStr(StrON)),
             Field(KeyIdListing, JArr(ids))>>)
\* { hs_request_timestamp: "1", id_listing: ["X1"] }
PayloadWithTimestamp ==
    Object(<<Field(KeyTimestamp, JStr(<<49>>)), Field(KeyIdListing, JArr(<<IdX1>>))>>)
\* an object that refers to itself
PayloadCircular == [fields |-> <<>>, circular |-> TRUE]
\* The payloads a direct caller of encryptRequest passes.
Payloads == {PayloadEmpty, PayloadListing(<<IdX1>>), PayloadWithTimestamp, PayloadCircular}
\* The id lists getListingDetails asks for.
IdLists == {<<IdX1>>, <<IdX2>>, <<IdX1, IdX2>>}
AllPayloads == Payloads \cup {PayloadListing(ids) : ids \in IdLists}

\* Response bodies before encryption: gzip of a JSON document, a JSON document
\* that was not compressed, gzip of text that is not JSON.
BodyGzipJson(doc) ==
    [kind |-> "gzip-json", doc |-> doc, bytes |-> Gzip(Utf8(StringifyFields(doc)))]
BodyPlainJson(doc) ==
    [kind |-> "plain-json", doc |-> doc, bytes |-> Utf8(StringifyFields(doc))]
BodyGzipText ==
    [kind |-> "gzip-text", doc |-> <<>>, bytes |-> Gzip(Utf8(TextOops))]
BodyEmpty == [kind |-> "empty", doc |-> <<>>, bytes |-> <<>>]
AllBodies ==
    {BodyGzipJson(d) : d \in JsonDocs} \cup {BodyPlainJson(DocNoHouseList), BodyGzipText}
\* The bodies a direct caller of decryptResponse is handed.
ResponseBodies ==
    {BodyGzipJson(DocNoHouseList), BodyGzipJson(DocHouseList(<<Listing(IdX1)>>)),
     BodyPlainJson(DocNoHouseList), BodyGzipText}

\* ------------------------------------------------------ PayloadEncryption
\* A step's outcome: what it returned or threw, and the primitives it called.
Outcome(res, trace) == [res |-> res, trace |-> trace]

generateTimestamp(now) == NumberToString(FloorSeconds(now))

\* Mutant: the counter is a fixed value, not the bytes drawn in this call.
encryptPayloadAESFixedCounter(data, aesKeyString, rnd) ==
    LET dataBuffer == Utf8(data)
        aesKey == normalizeAESKey(aesKeyString)
        counter == RandomBuffer(1)
        initError == CipherInitError(aesKey, counter)
    IN  IF IsDefined(initError)
        THEN Outcome(Throw(Get(initError)), <<"randomBytes", "createCipheriv">>)
        ELSE Outcome(Ok([counter |-> counter,
                         encrypted |-> AesCtr(aesKey, counter, dataBuffer)]),
                     <<"randomBytes", "createCipheriv", "cipher.update">>)

\* encryptPayloadAES on a string: UTF-8 bytes, normalized key, a fresh random
\* counter `rnd`, then the cipher.
encryptPayloadAES(data, aesKeyString, rnd) ==
    LET dataBuffer == Utf8(data)
        aesKey == normalizeAESKey(aesKeyString)
        counter == rnd
        initError == CipherInitError(aesKey, counter)
    IN  IF IsDefined(initError)
        THEN Outcome(Throw(Get(initError)), <<"randomBytes", "createCipheriv">>)
        ELSE Outcome(Ok([counter |-> counter,
                         encrypted |-> AesCtr(aesKey, counter, dataBuffer)]),
                     <<"randomBytes", "createCipheriv", "cipher.update">>)

encryptCounterRSA(pem, counter) ==
    IF pem = PemMissing
    THEN Outcome(Throw(ErrRsaKeyRequired), <<>>)
    ELSE Outcome(PublicEncrypt(pem, counter), <<"publicEncrypt">>)

\* encryptRequest up to its first await: timestamp, merge, JSON, AES.
EncryptBody(requestData, aesKeyString, rnd, now) ==
    LET timestamp == generateTimestamp(now)
        json == JsonStringify(MergeTimestamp(requestData, timestamp))
    IN  IF ~json.ok
        THEN [res |-> Throw(json.error), trace |-> <<"JSON.stringify">>,
              timestamp |-> timestamp, jsonString |-> <<>>,
              requestDataAfter |-> PayloadAfterMerge(requestData, timestamp)]
        ELSE LET aes == encryptPayloadAES(json.value, aesKeyString, rnd)
             IN  [res |-> aes.res, trace |-> <<"JSON.stringify">> \o aes.trace,
                  timestamp |-> timestamp, jsonString |-> json.value,
                  requestDataAfter |-> PayloadAfterMerge(requestData, timestamp)]

\* EncryptBody, evaluated once for every input of the model.
EncryptBodyTable ==
    [requestData \in AllPayloads, aesKeyString \in Secrets, rnd \in RandomBytes,
     t \in 0..MaxTick |-> EncryptBody(requestData, aesKeyString, rnd, DateNow(t))]

\* buffer.toString("base64") of the ciphertexts, evaluated once.
CipherTexts ==
    {EncryptBodyTable[x].res.value.encrypted :
        x \in {y \in DOMAIN EncryptBodyTable : EncryptBodyTable[y].res.ok}}
Base64Table == [b \in CipherTexts |-> Base64Encode(b)]

\* Mutant: the normalized key text is stored instead of the secret as passed.
EncryptionMetadataNormalized(counter, aesKeyString, timestamp) ==
    [counter |-> counter,
     aesKey |-> SliceTo(PadEnd(aesKeyString, KeyWidth, PadChar), KeyWidth),
     timestamp |-> timestamp]

\* The metadata encryptRequest stores.
EncryptionMetadata(counter, aesKeyString, timestamp) ==
    [counter |-> counter, aesKey |-> aesKeyString, timestamp |-> timestamp]

\* The envelope encryptRequest returns; the wrapped counter stands for its
\* base64 text.
EncryptedPayload(encryptedCounter, encrypted) ==
    [ctr |-> encryptedCounter, et_payload |-> Base64Table[encrypted]]

\* Mutant: the metadata is stored right after the AES step, before the counter
\* is wrapped.
encryptRequestStoreEarly(pem, slot, requestData, aesKeyString, rnd, t) ==
    LET body == EncryptBodyTable[requestData, aesKeyString, rnd, t]
    IN  IF ~body.res.ok
        THEN [res |-> body.res, trace |-> body.trace, slot |-> slot,
              timestamp |-> body.timestamp, jsonString |-> body.jsonString,
                  requestDataAfter |-> body.requestDataAfter]
        ELSE LET rsa == encryptCounterRSA(pem, body.res.value.counter)
                 stored == Some(EncryptionMetadata(body.res.value.counter,
                                                   aesKeyString, body.timestamp))
             IN  [res |-> IF rsa.res.ok
                          THEN Ok(EncryptedPayload(rsa.res.value,
                                                   body.res.value.encrypted))
                          ELSE rsa.res,
                  trace |-> body.trace \o rsa.trace, slot |-> stored,
                  timestamp |-> body.timestamp, jsonString |-> body.jsonString,
                  requestDataAfter |-> body.requestDataAfter]

\* The whole of encryptRequest, called at tick t on an instance whose slot
\* holds `slot`: the outcome, the primitives called and the slot afterwards.
encryptRequest(pem, slot, requestData, aesKeyString, rnd, t) ==
    LET body == EncryptBodyTable[requestData, aesKeyString, rnd, t]
    IN  IF ~body.res.ok
        THEN [res |-> body.res, trace |-> body.trace, slot |-> slot,
              timestamp |-> body.timestamp, jsonString |-> body.jsonString,
                  requestDataAfter |-> body.requestDataAfter]
        ELSE LET rsa == encryptCounterRSA(pem, body.res.value.counter)
             IN  IF ~rsa.res.ok
                 THEN [res |-> rsa.res, trace |-> body.trace \o rsa.trace,
                       slot |-> slot,
                       timestamp |-> body.timestamp, jsonString |-> body.jsonString,
                  requestDataAfter |-> body.requestDataAfter]
                 ELSE [res |-> Ok(EncryptedPayload(rsa.res.value,
                                                   body.res.value.encrypted)),
                       trace |-> body.trace \o rsa.trace,
                       slot |-> Some(EncryptionMetadata(body.res.value.counter,
                                                        aesKeyString,
                                                        body.timestamp)),
                       timestamp |-> body.timestamp, jsonString |-> body.jsonString,
                  requestDataAfter |-> body.requestDataAfter]

\* Mutant: the decipher is created with a fixed counter, not the stored one.
decryptResponseAESFixedCounter(encryptedData, aesKeyString, counter) ==
    LET encryptedBuffer == Base64Decode(encryptedData)
        aesKey == normalizeAESKey(aesKeyString)
        initError == CipherInitError(aesKey, RandomBuffer(1))
    IN  IF IsDefined(initError)
        THEN Outcome(Throw(Get(initError)), <<"createDecipheriv">>)
        ELSE Outcome(Ok(AesCtr(aesKey, RandomBuffer(1), encryptedBuffer)),
                     <<"createDecipheriv", "decipher.update">>)

\* decryptResponseAES: base64, normalized key, the cipher.
decryptResponseAES(encryptedData, aesKeyString, counter) ==
    LET encryptedBuffer == Base64Decode(encryptedData)
        aesKey == normalizeAESKey(aesKeyString)
        initError == CipherInitError(aesKey, counter)
    IN  IF IsDefined(initError)
        THEN Outcome(Throw(Get(initError)), <<"createDecipheriv">>)
        ELSE Outcome(Ok(AesCtr(aesKey, counter, encryptedBuffer)),
                     <<"createDecipheriv", "decipher.update">>)

decompressData(compressedData) == Outcome(Gunzip(compressedData), <<"gunzip">>)

bytesToString(buffer) == Utf8Decode(buffer)

\* Mutant: the catch block wraps whatever was thrown in a new Error.
DecryptRethrowWrapped(error) == JsError("Error", "Response decryption failed", "")

\* What the catch block of decryptResponse rethrows.
DecryptRethrow(error) == error

\* The try block of decryptResponse with the stored key and counter.
DecryptBody(encryptedResponseData, aesKeyString, counter) ==
    LET aes == decryptResponseAES(encryptedResponseData, aesKeyString, counter)
    IN  IF ~aes.res.ok
        THEN Outcome(Throw(DecryptRethrow(aes.res.error)), aes.trace)
        ELSE
          LET unz == decompressData(aes.res.value)
          IN  IF ~unz.res.ok
              THEN Outcome(Throw(DecryptRethrow(unz.res.error)), aes.trace \o unz.trace)
              ELSE
                LET parsed == JsonParse(bytesToString(unz.res.value))
                IN  Outcome(IF parsed.ok THEN parsed
                            ELSE Throw(DecryptRethrow(parsed.error)),
                            aes.trace \o unz.trace \o <<"JSON.parse">>)

\* ----------------------------------------------------------- the server
\* What the server sends back for a request it decoded with `counter` and the
\* session secret: the body under the same cipher, as base64 text.
ServerEncrypt(aesKeyString, counter, body) ==
    Base64Encode(AesCtr(normalizeAESKey(aesKeyString), counter, body))

\* normalizeAESKey, evaluated once for every secret of the model.
NormalizedKeys == [s \in Secrets |-> normalizeAESKey(s)]

\* The secrets the cipher accepts.
ValidSecrets == {s \in Secrets : Len(normalizeAESKey(s)) = AesKeySize}

\* ServerEncrypt, evaluated once for every request and body of the model.
ResponseTable ==
    [aesKeyString \in ValidSecrets, counter \in RandomBytes, body \in AllBodies |->
        ServerEncrypt(aesKeyString, counter, body.bytes)]
ResponseTexts == {ResponseTable[x] : x \in DOMAIN ResponseTable} \cup {<<>>}

\* DecryptBody, evaluated once for every response text and stored context.
DecryptBodyTable ==
    [text \in ResponseTexts, aesKeyString \in Secrets, counter \in RandomBytes |->
        DecryptBody(text, aesKeyString, counter)]

\* Mutant: the context is consumed by the decode.
SlotClearedAfterDecrypt(slot) == Undefined

\* The slot after decryptResponse.
SlotAfterDecrypt(slot) == slot

\* Mutant: the check for a missing context is left out, and reading the key of
\* undefined throws a TypeError.
decryptResponseUnguarded(slot, encryptedResponseData) ==
    IF ~IsDefined(slot)
    THEN [res |-> Throw(JsError("TypeError",
                                "Cannot read properties of undefined (reading 'aesKey')",
                                "")),
          trace |-> <<>>, slot |-> slot]
    ELSE LET body == DecryptBodyTable[encryptedResponseData,
                                      Get(slot).aesKey, Get(slot).counter]
         IN  [res |-> body.res, trace |-> body.trace, slot |-> SlotAfterDecrypt(slot)]

\* The whole of decryptResponse on an instance whose slot holds `slot`.
decryptResponse(slot, encryptedResponseData) ==
    IF ~IsDefined(slot)
    THEN [res |-> Throw(ErrNoMetadata), trace |-> <<>>, slot |-> slot]
    ELSE LET body == DecryptBodyTable[encryptedResponseData,
                                      Get(slot).aesKey, Get(slot).counter]
         IN  [res |-> body.res, trace |-> body.trace, slot |-> SlotAfterDecrypt(slot)]

\* clearEncryptionMetadata
clearEncryptionMetadata(slot) == Undefined

\* ------------------------------------------------- HouseSigmaAuthService
\* What the upstream answers to init/accesstoken/new: a token and the secret
\* of the same session.
Credential(token, secret) == [access_token |-> token, secret_key |-> secret]
Credentials == {Credential("token-1", SecretShort), Credential("token-2", SecretLong)}

\* The secret the server holds for the session of a bearer token.
SessionSecret(token) ==
    (CHOOSE c \in Credentials : c.access_token = token).secret_key

\* expired_at of a session opened at `now`: one second later.
ExpiredAt(now) == WideAdd(now.sec, 1)

\* Date.now() / 1000 < this.tokenExpiration, that is
\* 1000 * sec + ms < 1000 * tokenExpiration for a whole tokenExpiration.
NotExpired(now, tokenExpiration) ==
    \/ WideLess(now.sec, tokenExpiration)
    \/ now.sec = tokenExpiration /\ now.ms < 0

\* The condition of getAccessToken: token and expiration set, not expired.
AccessTokenCached(token, tokenExpiration, now) ==
    /\ IsDefined(token)
    /\ IsDefined(tokenExpiration)
    /\ NotExpired(now, Get(tokenExpiration))

\* The condition of getSecretKey: secret and expiration set, not expired.
SecretKeyCached(secret, tokenExpiration, now) ==
    /\ IsDefined(secret)
    /\ IsDefined(tokenExpiration)
    /\ NotExpired(now, Get(tokenExpiration))

ErrAuthHttp == JsError("Error", "HTTP error! status: 500", "")
ErrNoAccessToken == JsError("Error", "Failed to obtain access token", "")
ErrNoSecretKey == JsError("Error", "Failed to obtain secret key", "")

\* What init/accesstoken/new answers at `now`: a session and its expired_at
\* (already passed, or one or two seconds ahead), or an HTTP error
\* (undefined).
AuthAnswers(now) ==
    {Some([credential |-> c, expired_at |-> WideAdd(now.sec, k)]) :
        c \in Credentials, k \in 0..2}
    \cup {Undefined}

\* The three fields of the service.
AuthFields(token, expiration, secret) ==
    [accessToken |-> token, tokenExpiration |-> expiration, secretKey |-> secret]

\* authenticate: the three fields are set from the answer, or the error of a
\* failed request is thrown and the fields stay.
authenticate(auth, answer, now) ==
    IF IsDefined(answer)
    THEN [res |-> Ok(<<>>),
          auth |-> AuthFields(Some(Get(answer).credential.access_token),
                              Some(Get(answer).expired_at),
                              Some(Get(answer).credential.secret_key))]
    ELSE [res |-> Throw(ErrAuthHttp), auth |-> auth]

\* Mutant: the cached token is returned without looking at its expiration.
getAccessTokenNoExpiry(auth, answer, now) ==
    IF IsDefined(auth.accessToken)
    THEN [res |-> Ok(Get(auth.accessToken)), authenticated |-> 0, auth |-> auth]
    ELSE LET a == authenticate(auth, answer, now)
         IN  IF ~a.res.ok
             THEN [res |-> a.res, authenticated |-> 1, auth |-> a.auth]
             ELSE IF ~IsDefined(a.auth.accessToken)
             THEN [res |-> Throw(ErrNoAccessToken), authenticated |-> 1, auth |-> a.auth]
             ELSE [res |-> Ok(Get(a.auth.accessToken)), authenticated |-> 1,
                   auth |-> a.auth]

\* The whole of getAccessToken when no other call runs during its await: the
\* outcome, the number of authenticate calls, and the fields afterwards.
getAccessToken(auth, answer, now) ==
    IF AccessTokenCached(auth.accessToken, auth.tokenExpiration, now)
    THEN [res |-> Ok(Get(auth.accessToken)), authenticated |-> 0, auth |-> auth]
    ELSE LET a == authenticate(auth, answer, now)
         IN  IF ~a.res.ok
             THEN [res |-> a.res, authenticated |-> 1, auth |-> a.auth]
             ELSE IF ~IsDefined(a.auth.accessToken)
             THEN [res |-> Throw(ErrNoAccessToken), authenticated |-> 1, auth |-> a.auth]
             ELSE [res |-> Ok(Get(a.auth.accessToken)), authenticated |-> 1,
                   auth |-> a.auth]

\* The whole of getSecretKey when no other call runs during its await.
getSecretKey(auth, answer, now) ==
    IF SecretKeyCached(auth.secretKey, auth.tokenExpiration, now)
    THEN [res |-> Ok(Get(auth.secretKey)), authenticated |-> 0, auth |-> auth]
    ELSE LET a == authenticate(auth, answer, now)
         IN  IF ~a.res.ok
             THEN [res |-> a.res, authenticated |-> 1, auth |-> a.auth]
             ELSE IF ~IsDefined(a.auth.secretKey)
             THEN [res |-> Throw(ErrNoSecretKey), authenticated |-> 1, auth |-> a.auth]
             ELSE [res |-> Ok(Get(a.auth.secretKey)), authenticated |-> 1,
                   auth |-> a.auth]

\* ------------------------------------------------------------ CacheService
\* The cache maps a listing id to its entry; it is kept as the set of entries.
CacheHas(entries, listingId) == \E e \in entries : e.id_listing = listingId

\* Mutant: the filter keeps the ids the cache has.
filterNewListingIdsKeepCached(entries, listingIds) ==
    SelectSeq(listingIds, LAMBDA id : CacheHas(entries, id))

\* filterNewListingIds
filterNewListingIds(entries, listingIds) ==
    SelectSeq(listingIds, LAMBDA id : ~CacheHas(entries, id))

\* The id_listing property of a listing, or undefined.
IdListingOf(listing) ==
    IF HasKey(listing, KeyIdListing)
    THEN Some((CHOOSE f \in Range(listing) : f.k = KeyIdListing).v.s)
    ELSE Undefined

\* add: a listing with a non-empty id_listing replaces the entry of that id.
CacheAdd(entries, listing, now) ==
    LET id == IdListingOf(listing)
    IN  IF IsDefined(id) /\ Len(Get(id)) > 0
        THEN {e \in entries : e.id_listing # Get(id)}
             \cup {[id_listing |-> Get(id), data |-> listing, cachedAt |-> now]}
        ELSE entries

\* addListings
RECURSIVE addListings(_, _, _)
addListings(entries, listings, now) ==
    IF Len(listings) = 0 THEN entries
    ELSE addListings(CacheAdd(entries, Head(listings), now), Tail(listings), now)

\* ------------------------------------------------------ HouseListingService
ErrApiStatus == JsError("Error", "HouseSigma API error! status: 500", "")
ErrInvalidJson == JsError("Error", "Invalid JSON response from HouseSigma API", "")
ErrNoData == JsError("Error", "No encrypted data received from HouseSigma API", "")

\* decryptedData.houseList || []
HouseListOf(doc) ==
    IF HasKey(doc, KeyHouseList)
    THEN (CHOOSE f \in Range(doc) : f.k = KeyHouseList).v.o
    ELSE <<>>

\* What listing/preview/many answers, before compression and encryption: the
\* previews of the listings asked for, a preview without an id_listing, or
\* text that is no JSON.
PreviewBody(ids) == BodyGzipJson(DocHouseList([i \in 1..Len(ids) |-> Listing(ids[i])]))
PreviewBodies == [ids \in IdLists |-> PreviewBody(ids)]
PreviewNoId == BodyGzipJson(DocHouseList(<<ListingNoId>>))
ServerBodies(ids) == {PreviewBodies[ids], PreviewNoId, BodyGzipText}

\* ------------------------------------------------------- POST /search
\* message.includes(needle)
Includes(message, needle) ==
    \E i \in 1..(Len(message) - Len(needle) + 1) :
        SubSeq(message, i, i + Len(needle) - 1) = needle

\* res.status(status).json({ error, details })
Answer(status, error, details) == [status |-> status, error |-> error, details |-> details]

\* res.json(listingDetails)
AnswerOk == Answer(200, "", "")

\* The catch block of the handler: the answer is chosen by what the message
\* of the thrown Error includes.
SearchCatch(error) ==
    IF error.name # "" /\ Includes(error.message, "HouseSigma API error")
    THEN Answer(502, "Failed to communicate with HouseSigma API", error.message)
    ELSE IF error.name # "" /\ Includes(error.message, "No encrypted data received")
    THEN Answer(502, "Invalid response format from HouseSigma API", error.message)
    ELSE IF error.name # ""
            /\ (Includes(error.message, "decryption") \/ Includes(error.message, "decrypt"))
    THEN Answer(500, "Failed to decrypt response data",
                "Unable to process encrypted response from HouseSigma")
    ELSE IF error.name # ""
            /\ (Includes(error.message, "authentication")
                   \/ Includes(error.message, "access token"))
    THEN Answer(401, "Authentication failed with HouseSigma", error.message)
    ELSE Answer(500, "Internal server error occurred while searching listings",
                "An unexpected error occurred during the search process")

\* A getListingDetails call that has not started.
NoCall ==
    [pc |-> "idle", listingIds |-> <<>>, newListingIds |-> <<>>, secret |-> <<>>, timestamp |-> <<>>,
     counter |-> <<>>, encrypted |-> <<>>, encryptedCounter |-> Undefined,
     envelope |-> Undefined,
     token |-> "", header |-> Undefined, data |-> <<>>, context |-> Undefined,
     contextOf |-> 0, decrypted |-> Throw(NoError), result |-> <<>>,
     error |-> NoError, response |-> Undefined]

\* ------------------------------------------------------------------- state
VARIABLES
    rsaPublicKeyPem,          \* PayloadEncryption.rsaPublicKeyPem
    lastEncryptionMetadata,   \* PayloadEncryption.lastEncryptionMetadata
    tick,                     \* the clock, in seconds since EpochSec
    issued,                   \* contexts of the latest successful encryptRequest calls, latest first
    call,                     \* the last direct call on the instance: arguments, outcome, primitives called
    accessToken,              \* HouseSigmaAuthService.accessToken
    tokenExpiration,          \* HouseSigmaAuthService.tokenExpiration
    secretKey,                \* HouseSigmaAuthService.secretKey
    cache,                    \* CacheService.cache
    calls,                    \* the getListingDetails calls: position and locals of each
    slotOwner                 \* the getListingDetails call whose encryptRequest wrote the slot last

peVars == <<rsaPublicKeyPem, lastEncryptionMetadata, tick, issued, call>>
authVars == <<accessToken, tokenExpiration, secretKey>>
serviceVars == <<authVars, cache, calls, slotOwner>>
vars == <<peVars, serviceVars>>

Procs == 1..NumCalls

\* A request the server can answer: the secret and the counter it was
\* encrypted with.
Context(aesKeyString, counter) == [aesKey |-> aesKeyString, counter |-> counter]
StaleContext == Context(SecretShort, RandomBuffer(1))

\* The two latest requests are remembered.
Remember(ctx, history) ==
    IF Len(history) = 0 THEN <<ctx>> ELSE <<ctx, history[1]>>

\* The service and its collaborators as the module loads them.
InitService ==
    /\ accessToken = Undefined
    /\ tokenExpiration = Undefined
    /\ secretKey = Undefined
    /\ cache = {}
    /\ calls = [p \in Procs |-> NoCall]
    /\ slotOwner = 0

\* A PayloadEncryption instance after construction, with any of the keys.
Init ==
    /\ rsaPublicKeyPem \in {PemValid, PemMissing, PemMalformed}
    /\ lastEncryptionMetadata = Undefined
    /\ tick = 0
    /\ issued = <<>>
    /\ call = [op |-> "none"]
    /\ InitService

\* A caller awaits encryptRequest(requestData, aesKeyString).
EncryptRequest ==
    \E requestData \in Payloads, aesKeyString \in Secrets, rnd \in RandomBytes :
        LET r == encryptRequest(rsaPublicKeyPem, lastEncryptionMetadata,
                                requestData, aesKeyString, rnd, tick)
        IN  /\ lastEncryptionMetadata' = r.slot
            /\ issued' = IF r.res.ok
                         THEN Remember(Context(aesKeyString, rnd), issued)
                         ELSE issued
            /\ call' = [op |-> "encryptRequest", requestData |-> requestData,
                        aesKeyString |-> aesKeyString, rnd |-> rnd,
                        before |-> lastEncryptionMetadata, res |-> r.res,
                        trace |-> r.trace, timestamp |-> r.timestamp,
                        jsonString |-> r.jsonString,
                        requestDataAfter |-> r.requestDataAfter]
            /\ UNCHANGED <<rsaPublicKeyPem, tick, serviceVars>>

\* What a caller hands to decryptResponse: a response of the server to one of
\* the requests it knows or to a stale one, or the empty string.
DecryptInputs ==
    {[of |-> Some(ctx), body |-> b, text |-> ResponseTable[ctx.aesKey, ctx.counter, b]] :
        ctx \in Range(issued) \cup {StaleContext}, b \in ResponseBodies}
    \cup {[of |-> Undefined, body |-> BodyEmpty, text |-> <<>>]}

\* A caller awaits decryptResponse(text).
DecryptResponse ==
    \E in \in DecryptInputs :
        LET r == decryptResponse(lastEncryptionMetadata, in.text)
        IN  /\ lastEncryptionMetadata' = r.slot
            /\ call' = [op |-> "decryptResponse", input |-> in,
                        before |-> lastEncryptionMetadata, res |-> r.res,
                        trace |-> r.trace]
            /\ UNCHANGED <<rsaPublicKeyPem, tick, issued, serviceVars>>

ClearEncryptionMetadata ==
    /\ lastEncryptionMetadata' = clearEncryptionMetadata(lastEncryptionMetadata)
    /\ call' = [op |-> "clearEncryptionMetadata", before |-> lastEncryptionMetadata]
    /\ UNCHANGED <<rsaPublicKeyPem, tick, issued, serviceVars>>

Tick ==
    /\ tick < MaxTick
    /\ tick' = tick + 1
    /\ UNCHANGED <<rsaPublicKeyPem, lastEncryptionMetadata, issued, call, serviceVars>>

Next ==
    \/ EncryptRequest
    \/ DecryptResponse
    \/ ClearEncryptionMetadata
    \/ Tick

\* Direct calls on one PayloadEncryption instance, one at a time.
Spec == Init /\ [][Next]_vars

\* ------------------------------------------------- generateTimestamp alone
\* Readings of Date.now() from before 10^9 seconds to after 10^10 seconds,
\* around every power-of-ten and 2^31 boundary in between.
ClockReadings ==
    {[sec |-> Wide(hi, lo), ms |-> ms] :
        hi \in 0..10,
        lo \in {0, 1, 9, 10, 99999999, 100000000, 147483647, 147483648,
                 700000000, 999999990, 999999998, 999999999},
        ms \in {0, 500, 999}}

\* generateTimestamp() when Date.now() returns `now`.
GenerateTimestamp ==
    \E now \in ClockReadings :
        /\ call' = [op |-> "generateTimestamp", now |-> now,
                    timestamp |-> generateTimestamp(now)]
        /\ UNCHANGED <<rsaPublicKeyPem, lastEncryptionMetadata, tick, issued,
                       serviceVars>>

\* generateTimestamp applied to any reading, on any instance.
SpecClock == Init /\ [][GenerateTimestamp]_vars

\* -------------------------------------------- getListingDetails, step by step
\* A call runs from one await to the next without interruption; at an await
\* any other call may run.
\* A call that threw, and a call that returned: its locals are gone, its
\* caller, the handler of POST /search, holds the argument and the value
\* returned or the error thrown, and answers.
Fail(p, e) ==
    calls' = [calls EXCEPT ![p] = [NoCall EXCEPT !.pc = "failed", !.error = e,
                                                 !.response = Some(SearchCatch(e))]]
Return(p, listingIds, value) ==
    calls' = [calls EXCEPT ![p] = [NoCall EXCEPT !.pc = "done",
                                                 !.listingIds = listingIds,
                                                 !.result = value,
                                                 !.response = Some(AnswerOk)]]

\* getListingDetails(listingIds) up to its first await: the cache filter, the
\* early return, and getSecretKey up to its return or its fetch.  The calls
\* are numbered in the order they are made.
GetListingDetails(p) ==
    /\ calls[p].pc = "idle"
    /\ \A q \in Procs : q < p => calls[q].pc # "idle"
    /\ \E listingIds \in IdLists :
          LET newListingIds == filterNewListingIds(cache, listingIds)
          IN  IF Len(newListingIds) = 0
              THEN Return(p, listingIds, <<>>)
              ELSE IF SecretKeyCached(secretKey, tokenExpiration, DateNow(tick))
              THEN calls' = [calls EXCEPT ![p].pc = "haveSecret",
                                          ![p].listingIds = listingIds,
                                          ![p].newListingIds = newListingIds,
                                          ![p].secret = Get(secretKey)]
              ELSE calls' = [calls EXCEPT ![p].pc = "authSecret",
                                          ![p].listingIds = listingIds,
                                          ![p].newListingIds = newListingIds]
    /\ UNCHANGED <<peVars, authVars, cache, slotOwner>>

\* authenticate after its fetch: the three fields are set from the answer, or
\* the error of a failed request is thrown.
Authenticate(p) ==
    /\ calls[p].pc \in {"authSecret", "authToken"}
    /\ \/ \E c \in Credentials :
            /\ accessToken' = Some(c.access_token)
            /\ tokenExpiration' = Some(ExpiredAt(DateNow(tick)))
            /\ secretKey' = Some(c.secret_key)
            /\ calls' = [calls EXCEPT ![p].pc =
                            IF calls[p].pc = "authSecret"
                            THEN "authSecretDone" ELSE "authTokenDone"]
       \/ /\ Fail(p, ErrAuthHttp)
          /\ UNCHANGED authVars
    /\ UNCHANGED <<peVars, cache, slotOwner>>

\* getSecretKey after `await this.authenticate()`.
GetSecretKeyReturn(p) ==
    /\ calls[p].pc = "authSecretDone"
    /\ IF IsDefined(secretKey)
       THEN calls' = [calls EXCEPT ![p].pc = "haveSecret", ![p].secret = Get(secretKey)]
       ELSE Fail(p, ErrNoSecretKey)
    /\ UNCHANGED <<peVars, authVars, cache, slotOwner>>

\* encryptRequest up to its first await: timestamp, merge, JSON, AES.
EncryptPayload(p) ==
    /\ calls[p].pc = "haveSecret"
    /\ \E rnd \in RandomBytes :
          LET body == EncryptBodyTable[PayloadListing(calls[p].newListingIds),
                                       calls[p].secret, rnd, tick]
          IN  IF body.res.ok
              THEN calls' = [calls EXCEPT ![p].pc = "encAes",
                                          ![p].timestamp = body.timestamp,
                                          ![p].counter = body.res.value.counter,
                                          ![p].encrypted = body.res.value.encrypted]
              ELSE Fail(p, body.res.error)
    /\ UNCHANGED <<peVars, authVars, cache, slotOwner>>

\* encryptRequest after the AES step: the counter is wrapped.
EncryptCounter(p) ==
    /\ calls[p].pc = "encAes"
    /\ LET rsa == encryptCounterRSA(rsaPublicKeyPem, calls[p].counter)
       IN  IF rsa.res.ok
           THEN calls' = [calls EXCEPT ![p].pc = "encRsa",
                                       ![p].encryptedCounter = Some(rsa.res.value)]
           ELSE Fail(p, rsa.res.error)
    /\ UNCHANGED <<peVars, authVars, cache, slotOwner>>

\* encryptRequest after the RSA step: the metadata is stored and the envelope
\* returned.
StoreMetadata(p) ==
    /\ calls[p].pc = "encRsa"
    /\ lastEncryptionMetadata' =
          Some(EncryptionMetadata(calls[p].counter, calls[p].secret, calls[p].timestamp))
    /\ slotOwner' = p
    /\ calls' = [calls EXCEPT ![p].pc = "encrypted",
                              ![p].envelope =
                                  Some(EncryptedPayload(Get(calls[p].encryptedCounter),
                                                        calls[p].encrypted))]
    /\ UNCHANGED <<rsaPublicKeyPem, tick, issued, call, authVars, cache>>

\* getListingDetails after encryptRequest: getAccessToken up to its return or
\* its fetch.
GetAccessToken(p) ==
    /\ calls[p].pc = "encrypted"
    /\ calls' =
          IF AccessTokenCached(accessToken, tokenExpiration, DateNow(tick))
          THEN [calls EXCEPT ![p].pc = "haveToken", ![p].token = Get(accessToken)]
          ELSE [calls EXCEPT ![p].pc = "authToken"]
    /\ UNCHANGED <<peVars, authVars, cache, slotOwner>>

\* getAccessToken after `await this.authenticate()`.
GetAccessTokenReturn(p) ==
    /\ calls[p].pc = "authTokenDone"
    /\ IF IsDefined(accessToken)
       THEN calls' = [calls EXCEPT ![p].pc = "haveToken", ![p].token = Get(accessToken)]
       ELSE Fail(p, ErrNoAccessToken)
    /\ UNCHANGED <<peVars, authVars, cache, slotOwner>>

\* getListingDetails after getAccessToken: the headers are built, the
\* timestamp header from the instance's slot, and the request is sent.
SendRequest(p) ==
    /\ calls[p].pc = "haveToken"
    /\ calls' = [calls EXCEPT ![p].pc = "fetching",
                              ![p].header =
                                  Some(IF IsDefined(lastEncryptionMetadata)
                                       THEN Get(lastEncryptionMetadata).timestamp
                                       ELSE <<>>)]
    /\ UNCHANGED <<peVars, authVars, cache, slotOwner>>

\* The server reads a request when the secret of the bearer's session is the
\* one the body was encrypted with.
ServerReads(p) ==
    NormalizedKeys[SessionSecret(calls[p].token)] = NormalizedKeys[calls[p].secret]

\* getListingDetails after its fetch: the status, the text, the data field,
\* and decryptResponse up to its first await.
ApiResponse(p) ==
    /\ calls[p].pc = "fetching"
    /\ \/ /\ Fail(p, ErrApiStatus)
          /\ UNCHANGED lastEncryptionMetadata
       \/ /\ Fail(p, ErrInvalidJson)
          /\ UNCHANGED lastEncryptionMetadata
       \/ /\ Fail(p, ErrNoData)
          /\ UNCHANGED lastEncryptionMetadata
       \/ /\ ServerReads(p)
          /\ \E body \in ServerBodies(calls[p].newListingIds) :
                LET data == ResponseTable[SessionSecret(calls[p].token),
                                          calls[p].counter, body]
                    r == decryptResponse(lastEncryptionMetadata, data)
                IN  /\ lastEncryptionMetadata' = r.slot
                    /\ calls' = [calls EXCEPT ![p].pc = "decrypting",
                                              ![p].data = data,
                                              ![p].context = lastEncryptionMetadata,
                                              ![p].contextOf = slotOwner,
                                              ![p].decrypted = r.res]
    /\ UNCHANGED <<rsaPublicKeyPem, tick, issued, call, authVars, cache, slotOwner>>

\* decryptResponse after its awaits: it returns the document or rethrows.
DecryptReturn(p) ==
    /\ calls[p].pc = "decrypting"
    /\ IF calls[p].decrypted.ok
       THEN calls' = [calls EXCEPT ![p].pc = "decrypted"]
       ELSE Fail(p, calls[p].decrypted.error)
    /\ UNCHANGED <<peVars, authVars, cache, slotOwner>>

\* getListingDetails after decryptResponse: the listings are cached and
\* returned.
AddListings(p) ==
    /\ calls[p].pc = "decrypted"
    /\ LET newListings == HouseListOf(calls[p].decrypted.value)
       IN  /\ cache' = addListings(cache, newListings, DateNow(tick))
           /\ Return(p, calls[p].listingIds, newListings)
    /\ UNCHANGED <<peVars, authVars, slotOwner>>

\* The service's instance is constructed with the embedded public key.
InitApp ==
    /\ rsaPublicKeyPem = PemValid
    /\ lastEncryptionMetadata = Undefined
    /\ tick = 0
    /\ issued = <<>>
    /\ call = [op |-> "none"]
    /\ InitService

NextService ==
    \/ \E p \in Procs :
          \/ GetListingDetails(p)
          \/ Authenticate(p)
          \/ GetSecretKeyReturn(p)
          \/ EncryptPayload(p)
          \/ EncryptCounter(p)
          \/ StoreMetadata(p)
          \/ GetAccessToken(p)
          \/ GetAccessTokenReturn(p)
          \/ SendRequest(p)
          \/ ApiResponse(p)
          \/ DecryptReturn(p)
          \/ AddListings(p)
    \/ Tick

\* Overlapping getListingDetails calls on the shared instance.
SpecService == InitApp /\ [][NextService]_vars

\* ---------------------------------------- HouseSigmaAuthService, call by call
\* A caller awaits getAccessToken() or getSecretKey(); the calls do not
\* overlap.
AuthCall(op, r, answer) ==
    /\ accessToken' = r.auth.accessToken
    /\ tokenExpiration' = r.auth.tokenExpiration
    /\ secretKey' = r.auth.secretKey
    /\ call' = [op |-> op,
                before |-> AuthFields(accessToken, tokenExpiration, secretKey),
                answer |-> answer, now |-> DateNow(tick), res |-> r.res,
                authenticated |-> r.authenticated]
    /\ UNCHANGED <<rsaPublicKeyPem, lastEncryptionMetadata, tick, issued, cache,
                   calls, slotOwner>>

GetAccessTokenCall ==
    \E answer \in AuthAnswers(DateNow(tick)) :
        AuthCall("getAccessToken",
                 getAccessToken(AuthFields(accessToken, tokenExpiration, secretKey),
                                answer, DateNow(tick)),
                 answer)

GetSecretKeyCall ==
    \E answer \in AuthAnswers(DateNow(tick)) :
        AuthCall("getSecretKey",
                 getSecretKey(AuthFields(accessToken, tokenExpiration, secretKey),
                              answer, DateNow(tick)),
                 answer)

SpecAuth == InitApp /\ [][GetAccessTokenCall \/ GetSecretKeyCall \/ Tick]_vars

\* ------------------------------------------------------------------ claims
\* How the thrown values fall under the error taxonomy of the design.
SequenceErrors == {ErrNoMetadata}
ConfigurationErrors == {ErrRsaKeyRequired, ErrPemDecode}
CryptoErrors == {ErrInvalidKeyLength, ErrInvalidIv}
CorruptResponseErrors == {ErrGzipHeader, ErrGzipEof, ErrGzipData, ErrJsonSyntax}

Called(primitive) == primitive \in Range(call.trace)
EncryptReturned == call.op = "encryptRequest" /\ call.res.ok
EncryptThrew == call.op = "encryptRequest" /\ ~call.res.ok
Decrypted == call.op = "decryptResponse"
SlotContext(slot) == Context(Get(slot).aesKey, Get(slot).counter)
SameCipherContext(a, b) ==
    normalizeAESKey(a.aesKey) = normalizeAESKey(b.aesKey) /\ a.counter = b.counter

\* C1: after a successful encryptRequest the slot holds the counter drawn in
\* that call, the secret as it was passed, and the timestamp that was merged
\* into the JSON that call encrypted, whatever the slot held before.
C1_ContextIsThisCalls ==
    EncryptReturned =>
        /\ IsDefined(lastEncryptionMetadata)
        /\ Get(lastEncryptionMetadata).counter = call.rnd
        /\ Get(lastEncryptionMetadata).aesKey = call.aesKeyString
        /\ Get(lastEncryptionMetadata).timestamp = call.timestamp
        /\ call.jsonString =
              StringifyFields(MergeTimestamp(call.requestData,
                                             Get(lastEncryptionMetadata).timestamp).fields)

\* C1 witness: a successful call replaced a different previous context.
C1_Witness ==
    /\ EncryptReturned
    /\ IsDefined(call.before)
    /\ Get(call.before) # Get(lastEncryptionMetadata)
    /\ Get(call.before).timestamp # Get(lastEncryptionMetadata).timestamp

\* C2: decryptResponse with no active context throws the no-metadata error,
\* calls no cipher, decompression or parse primitive, and leaves the slot empty.
C2_NoContextIsSequenceError ==
    (Decrypted /\ ~IsDefined(call.before)) =>
        /\ ~call.res.ok
        /\ call.res.error \in SequenceErrors
        /\ call.trace = <<>>
        /\ ~IsDefined(lastEncryptionMetadata)

\* C2 witness: after encryptRequest succeeded and the context was cleared, a
\* well-formed response to that very request is refused.
C2_Witness ==
    /\ Decrypted
    /\ ~IsDefined(call.before)
    /\ Len(issued) > 0
    /\ call.input.of = Some(issued[1])
    /\ call.input.body.kind = "gzip-json"

\* C3: decryptResponse leaves the slot as it found it, whether it returns or
\* throws, so decoding the same text again gives the same outcome.
C3_DecryptKeepsContext ==
    Decrypted =>
        /\ lastEncryptionMetadata = call.before
        /\ decryptResponse(lastEncryptionMetadata, call.input.text).res = call.res

\* C3 witness: a decode that returned a document with a context in the slot.
C3_Witness ==
    /\ Decrypted
    /\ IsDefined(call.before)
    /\ call.res.ok

\* C3 witness, the throwing case: a decode that threw with a context in the slot.
C3_WitnessThrow ==
    /\ Decrypted
    /\ IsDefined(call.before)
    /\ ~call.res.ok

\* C4: an encryptRequest that throws leaves the slot exactly as it was.
C4_EncryptAllOrNothing ==
    EncryptThrew => lastEncryptionMetadata = call.before

\* C4 witness: a call failed in the cipher while a context was stored.
C4_Witness ==
    /\ EncryptThrew
    /\ IsDefined(call.before)
    /\ call.res.error = ErrInvalidKeyLength

\* C4 witness, the key case: a call failed because the public key is missing.
C4_WitnessRsa ==
    /\ EncryptThrew
    /\ call.res.error = ErrRsaKeyRequired

\* C5 (as claimed): with the public key missing or malformed, encryptRequest
\* fails with a configuration error having drawn no random counter and run
\* no symmetric encryption.
C5_KeyCheckedBeforeRandomness ==
    (call.op = "encryptRequest" /\ rsaPublicKeyPem # PemValid) =>
        /\ ~call.res.ok
        /\ call.res.error \in ConfigurationErrors
        /\ ~Called("randomBytes")
        /\ ~Called("cipher.update")

\* C6: the slot only ever holds the context of the latest successful
\* encryptRequest; a response is decoded with that context, so the response
\* to a request encrypted under the same key and counter decodes to its
\* document, and the response to any other request does not decode at all.
C6_DecodableOnlyWithOwnContext ==
    /\ IsDefined(lastEncryptionMetadata) =>
          /\ Len(issued) > 0
          /\ SlotContext(lastEncryptionMetadata) = issued[1]
    /\ (Decrypted /\ IsDefined(call.before) /\ IsDefined(call.input.of)) =>
          IF SameCipherContext(Get(call.input.of), SlotContext(call.before))
          THEN call.input.body.kind = "gzip-json" =>
                  (call.res.ok /\ call.res.value = call.input.body.doc)
          ELSE ~call.res.ok

\* C6 witness: after encryptRequest(A), encryptRequest(B), the response to A
\* is handed to decryptResponse, and the decode fails.
C6_Witness ==
    /\ Decrypted
    /\ IsDefined(call.before)
    /\ Len(issued) = 2
    /\ call.input.of = Some(issued[2])
    /\ ~SameCipherContext(issued[1], issued[2])
    /\ SlotContext(call.before) = issued[1]
    /\ call.input.body.kind = "gzip-json"
    /\ ~call.res.ok

\* C6 witness, the matching case: the response to the latest request decodes.
C6_WitnessOwn ==
    /\ Decrypted
    /\ IsDefined(call.before)
    /\ call.input.of = Some(issued[1])
    /\ call.input.body.kind = "gzip-json"
    /\ call.res.ok

\* C7 (as claimed): in every interleaving of getListingDetails calls, the
\* decryptResponse of a call finds in the slot the context its own
\* encryptRequest stored: no other call's encryptRequest wrote the slot in
\* between.
C7_DecryptUsesOwnContext ==
    \A p \in Procs :
        IsDefined(calls[p].context) =>
            /\ calls[p].contextOf = p
            /\ SlotContext(calls[p].context) = Context(calls[p].secret, calls[p].counter)

\* C8 (as claimed): in every interleaving of getListingDetails calls, the
\* HS-Request-Timestamp header of a request that was sent is the timestamp
\* merged into the body of that request.
C8_HeaderIsBodyTimestamp ==
    \A p \in Procs :
        IsDefined(calls[p].header) => Get(calls[p].header) = calls[p].timestamp

\* C9: when the cipher step succeeded and the plaintext is not gzip, or is
\* gzip of text that is not JSON, decryptResponse throws the decompression or
\* parse error itself, which is neither the no-metadata error nor a cipher
\* error.
C9_CorruptResponseIsDistinct ==
    (Decrypted /\ IsDefined(call.before) /\ Called("decipher.update")
        /\ call.input.body.kind # "gzip-json") =>
        /\ ~call.res.ok
        /\ Called("gunzip")
        /\ call.res.error \in CorruptResponseErrors
        /\ call.res.error \notin (SequenceErrors \cup CryptoErrors \cup ConfigurationErrors)
        /\ (call.input.body.kind = "gzip-text" /\ call.input.of = Some(SlotContext(call.before)))
              => call.res.error = ErrJsonSyntax
        /\ (call.input.body.kind = "plain-json" /\ call.input.of = Some(SlotContext(call.before)))
              => call.res.error = ErrGzipHeader

\* C9 witness: a response that decrypts to JSON text that was never compressed.
C9_Witness ==
    /\ Decrypted
    /\ IsDefined(call.before)
    /\ call.input.body.kind = "plain-json"
    /\ call.input.of = Some(SlotContext(call.before))
    /\ call.res.error = ErrGzipHeader

\* C9 witness, the parse case: gzip of text that is not JSON.
C9_WitnessParse ==
    /\ Decrypted
    /\ IsDefined(call.before)
    /\ call.input.body.kind = "gzip-text"
    /\ call.res.error = ErrJsonSyntax

\* The cipher applied again to the base64-decoded et_payload, with the
\* normalized secret and the counter the slot holds, gives the UTF-8 bytes of
\* the timestamped JSON.
RoundTrip ==
    LET m == Get(lastEncryptionMetadata)
        cipherText == Base64Decode(call.res.value.et_payload)
    IN  /\ Len(cipherText) = Len(Utf8(call.jsonString))
        /\ AesCtr(normalizeAESKey(m.aesKey), m.counter, cipherText) = Utf8(call.jsonString)
        /\ call.jsonString =
              StringifyFields(MergeTimestamp(call.requestData, m.timestamp).fields)

\* C10 (as claimed): for every serializable payload and non-empty secret,
\* encryptRequest returns an envelope whose et_payload round-trips.
C10_RequestRoundTrip ==
    (call.op = "encryptRequest" /\ rsaPublicKeyPem = PemValid
        /\ ~call.requestData.circular /\ Len(call.aesKeyString) > 0) =>
        (call.res.ok /\ RoundTrip)

\* The round trip for the calls that return an envelope.
RoundTripWhenReturned == EncryptReturned => RoundTrip

\* C11 (as claimed): for every secret, the key normalizeAESKey gives the cipher
\* is the first 16 bytes of the secret's UTF-8 encoding right-padded with the
\* byte '*', and so is exactly 16 bytes long.
C11_NormalizedKeyIs16Bytes ==
    (call.op = "encryptRequest" /\ Called("randomBytes")) =>
        /\ Len(normalizeAESKey(call.aesKeyString)) = KeyWidth
        /\ normalizeAESKey(call.aesKeyString) =
              SliceTo(PadEnd(Utf8(call.aesKeyString), KeyWidth, PadChar), KeyWidth)

\* The same for the secrets whose characters are all ASCII.
NormalizedKeyAscii ==
    (call.op = "encryptRequest" /\ Called("randomBytes")
        /\ \A i \in 1..Len(call.aesKeyString) : call.aesKeyString[i] < 128) =>
        /\ Len(normalizeAESKey(call.aesKeyString)) = KeyWidth
        /\ normalizeAESKey(call.aesKeyString) =
              SliceTo(PadEnd(Utf8(call.aesKeyString), KeyWidth, PadChar), KeyWidth)

C13_PayloadUntouchedTimestampFresh ==
    /\ call.op = "encryptRequest" => call.requestDataAfter = call.requestData
    /\ (EncryptReturned /\ HasKey(call.requestData.fields, KeyTimestamp)) =>
          LET fields == call.requestData.fields
              fresh == Get(lastEncryptionMetadata).timestamp
              expected == [i \in 1..Len(fields) |->
                              IF fields[i].k = KeyTimestamp
                              THEN Field(KeyTimestamp, JStr(fresh))
                              ELSE fields[i]]
          IN  /\ call.jsonString = StringifyFields(expected)
              /\ call.jsonString # StringifyFields(fields)
              /\ AesCtr(normalizeAESKey(call.aesKeyString), call.rnd,
                        Base64Decode(call.res.value.et_payload))
                    = Utf8(call.jsonString)

\* C13 witness: a call whose payload came with its own hs_request_timestamp
\* returned.
C13_Witness ==
    /\ EncryptReturned
    /\ HasKey(call.requestData.fields, KeyTimestamp)
    /\ Field(KeyTimestamp, JStr(call.timestamp)) \notin Range(call.requestData.fields)

\* A getListingDetails call has completed: it returned or threw.
Completed(p) == calls[p].pc \in {"done", "failed"}

\* C14 (as claimed): once a getListingDetails call has completed and no other
\* call is under way, the slot of the shared instance is empty: no counter
\* and no secret remain stored.
C14_ContextClearedAfterCall ==
    ((\E p \in Procs : Completed(p))
        /\ \A p \in Procs : Completed(p) \/ calls[p].pc = "idle") =>
        ~IsDefined(lastEncryptionMetadata)

\* The number a text of ten decimal digits denotes.
TenDigitValue(d) ==
    Wide(d[1] - 48,
         ((d[2] - 48) * 100000000) + ((d[3] - 48) * 10000000)
         + ((d[4] - 48) * 1000000) + ((d[5] - 48) * 100000)
         + ((d[6] - 48) * 10000) + ((d[7] - 48) * 1000)
         + ((d[8] - 48) * 100) + ((d[9] - 48) * 10) + (d[10] - 48))

\* The current era: 1000000000 <= seconds <= 9999999999.
InEra(now) == now.sec.hi >= 1 /\ now.sec.hi <= 9

\* C15: for every clock reading of the current era, generateTimestamp
\* returns exactly ten ASCII decimal digits, and they denote the whole
\* seconds of the reading.
C15_TimestampIsTenDigits ==
    (call.op = "generateTimestamp" /\ InEra(call.now)) =>
        /\ Len(call.timestamp) = 10
        /\ \A i \in 1..10 : call.timestamp[i] >= 48 /\ call.timestamp[i] <= 57
        /\ TenDigitValue(call.timestamp) = call.now.sec

\* C15 witness: the last second of the era, 999 ms into it.
C15_Witness ==
    /\ call.op = "generateTimestamp"
    /\ call.now = [sec |-> Wide(9, 999999999), ms |-> 999]
    /\ call.timestamp = <<57, 57, 57, 57, 57, 57, 57, 57, 57, 57>>

\* Outside the era the text is shorter or longer than ten digits.
TimestampOutsideEra ==
    (call.op = "generateTimestamp" /\ ~InEra(call.now)) => Len(call.timestamp) # 10

\* The value a call is about: the token or the secret of the three fields.
AuthValue(op, auth) ==
    IF op = "getAccessToken" THEN auth.accessToken ELSE auth.secretKey
AnswerValue(op, answer) ==
    IF op = "getAccessToken" THEN answer.credential.access_token
    ELSE answer.credential.secret_key

\* C16: getAccessToken and getSecretKey return the cached value, calling
\* authenticate not at all and changing no field, exactly when a value and an
\* expiration are stored and the clock's seconds are strictly below the
\* expiration; otherwise they call authenticate once and return the value
\* that authentication stored, or throw its error with the fields unchanged.
\* A value returned without authentication had not expired when it was
\* checked.
C16_CachedUnlessExpired ==
    call.op \in {"getAccessToken", "getSecretKey"} =>
        LET before == AuthValue(call.op, call.before)
            cached == /\ IsDefined(before)
                      /\ IsDefined(call.before.tokenExpiration)
                      /\ WideLess(call.now.sec, Get(call.before.tokenExpiration))
            after == AuthFields(accessToken, tokenExpiration, secretKey)
        IN  /\ call.authenticated = 0 <=> cached
            /\ call.authenticated \in {0, 1}
            /\ cached => /\ call.res = Ok(Get(before))
                          /\ after = call.before
            /\ (~cached /\ IsDefined(call.answer)) =>
                  /\ call.res = Ok(AnswerValue(call.op, Get(call.answer)))
                  /\ AuthValue(call.op, after) = Some(call.res.value)
                  /\ after = AuthFields(Some(Get(call.answer).credential.access_token),
                                        Some(Get(call.answer).expired_at),
                                        Some(Get(call.answer).credential.secret_key))
            /\ (~cached /\ ~IsDefined(call.answer)) =>
                  /\ call.res = Throw(ErrAuthHttp)
                  /\ after = call.before

\* C16 witness: a call found a value whose expiration had passed,
\* authenticated, and returned another value than the stored one.
C16_Witness ==
    /\ call.op = "getAccessToken"
    /\ IsDefined(call.before.accessToken)
    /\ call.authenticated = 1
    /\ call.res.ok
    /\ call.res.value # Get(call.before.accessToken)

\* C16 witness, the cached case: a call returned the stored secret without
\* authenticating.
C16_WitnessCached ==
    /\ call.op = "getSecretKey"
    /\ call.authenticated = 0
    /\ call.res.ok


\* C17: in every request getListingDetails has sent, the secret the body was
\* encrypted with and the bearer token of the Authorization header come from
\* the same answer of authenticate, also when the token expired or another
\* call authenticated between the two awaits.
C17_SecretAndTokenOfOneSession ==
    \A p \in Procs :
        calls[p].pc = "fetching" => calls[p].secret = SessionSecret(calls[p].token)

\* A listing that has an id_listing, and the ids a cache holds.
HasIdListing(listing) ==
    IsDefined(IdListingOf(listing)) /\ Len(Get(IdListingOf(listing))) > 0
CachedIds(entries) == {e.id_listing : e \in entries}

\* What the server reads in a request body: the cipher applied again with the
\* session's secret and the unwrapped counter, evaluated once.
SessionSecrets == {c.secret_key : c \in Credentials}
ListingCipherTexts ==
    {EncryptBodyTable[PayloadListing(ids), s, rnd, t].res.value.encrypted :
        ids \in IdLists, s \in SessionSecrets, rnd \in RandomBytes, t \in 0..MaxTick}
RequestPlain ==
    [aesKeyString \in SessionSecrets, counter \in RandomBytes,
     encrypted \in ListingCipherTexts |->
        AesCtr(NormalizedKeys[aesKeyString], counter, encrypted)]

\* The UTF-8 bytes of the JSON of a request for these ids made at tick t,
\* evaluated once.
RequestJson ==
    [ids \in IdLists, t \in 0..MaxTick |->
        Utf8(StringifyFields(
            MergeTimestamp(PayloadListing(ids), generateTimestamp(DateNow(t))).fields))]

\* The request of a call asks for these ids: its body deciphers, with the
\* call's secret and counter, to the JSON of the payload with these ids and
\* the call's timestamp.
AsksFor(c, ids) ==
    \E t \in 0..MaxTick :
        /\ c.timestamp = generateTimestamp(DateNow(t))
        /\ RequestPlain[c.secret, c.counter, c.encrypted] = RequestJson[ids, t]

\* What C18 says of one step of call p.
CacheFilterStep(p) ==
    LET before == calls[p]
        after == calls'[p]
        absent == {id \in Range(after.listingIds) : id \notin CachedIds(cache)}
    IN  /\ (before.pc = "idle" /\ after.pc # "idle") =>
              IF absent = {}
              THEN /\ after.pc = "done"
                   /\ after.result = <<>>
                   /\ UNCHANGED <<lastEncryptionMetadata, cache, authVars, slotOwner>>
                   /\ \A q \in Procs \ {p} : calls'[q] = calls[q]
              ELSE /\ after.pc \in {"authSecret", "haveSecret"}
                   /\ after.newListingIds =
                          SelectSeq(after.listingIds, LAMBDA id : id \in absent)
        /\ (before.pc \notin {"idle", "done", "failed"}
               /\ after.pc \notin {"done", "failed"}) =>
              /\ after.listingIds = before.listingIds
              /\ after.newListingIds = before.newListingIds
        /\ (before.pc = "haveToken" /\ after.pc = "fetching") =>
              /\ after.envelope =
                    Some(EncryptedPayload(Get(after.encryptedCounter), after.encrypted))
              /\ \A ids \in IdLists :
                    AsksFor(after, ids) <=> ids = after.newListingIds
        /\ (before.pc = "decrypted" /\ after.pc = "done") =>
              \A i \in 1..Len(after.result) :
                  HasIdListing(after.result[i]) =>
                      \E e \in cache' :
                          /\ e.id_listing = Get(IdListingOf(after.result[i]))
                          /\ IdListingOf(e.data) = Some(e.id_listing)
                          /\ e.data \in Range(after.result)

\* C18: getListingDetails sends only the ids that were not in the cache when
\* it filtered its argument; when all were cached it returns an empty list in
\* the same step, with no encryptRequest, no authentication and no request,
\* and leaves the context and the cache as they were; when a call returns
\* after a response, every listing it returns that has an id_listing is in
\* the cache under that id.
C18_OnlyUncachedIdsFetched == [][\A p \in Procs : CacheFilterStep(p)]_vars

\* C18 witness: a call asked for two ids of which one was cached, and
\* returned the listing of the other one, now cached too.
C18_Witness ==
    \E p \in Procs :
        /\ calls[p].pc = "done"
        /\ Len(calls[p].listingIds) = 2
        /\ Len(calls[p].result) = 1
        /\ HasIdListing(calls[p].result[1])
        /\ Range(calls[p].listingIds) \subseteq CachedIds(cache)

\* C18 witness, the early return: a call whose ids were all cached returned
\* the empty list.
C18_WitnessAllCached ==
    \E p \in Procs :
        /\ calls[p].pc = "done"
        /\ calls[p].result = <<>>
        /\ Len(calls[p].listingIds) > 0
        /\ Range(calls[p].listingIds) \subseteq CachedIds(cache)
        /\ IsDefined(lastEncryptionMetadata)

\* C18 witness, a listing without id_listing: it is returned and not cached.
C18_WitnessNoId ==
    \E p \in Procs :
        /\ calls[p].pc = "done"
        /\ calls[p].result = <<ListingNoId>>
        /\ cache = {}

\* The answer C19 names.
AnswerDecryptFailed ==
    Answer(500, "Failed to decrypt response data",
           "Unable to process encrypted response from HouseSigma")

\* C19 (as claimed): whenever decryptResponse fails inside getListingDetails,
\* POST /search answers with status 500 and the error "Failed to decrypt
\* response data", not with the generic internal-server-error body.
C19_DecryptFailureAnswer ==
    \A p \in Procs :
        /\ (calls[p].pc = "decrypting" /\ ~calls[p].decrypted.ok) =>
              SearchCatch(calls[p].decrypted.error).error = AnswerDecryptFailed.error
        /\ (calls[p].pc = "failed"
               /\ calls[p].error \in SequenceErrors \cup CorruptResponseErrors) =>
              /\ Get(calls[p].response).status = AnswerDecryptFailed.status
              /\ Get(calls[p].response).error = AnswerDecryptFailed.error

\* What the handler does answer to a failure of decryptResponse: status 500
\* with the generic body.
DecryptFailureAnsweredGeneric ==
    \A p \in Procs :
        (calls[p].pc = "failed"
            /\ calls[p].error \in SequenceErrors \cup CorruptResponseErrors) =>
            calls[p].response =
                Some(Answer(500, "Internal server error occurred while searching listings",
                            "An unexpected error occurred during the search process"))

====
